---- MODULE Spec2Model ----
(***************************************************************************)
(* Tiny bignum (src/bn.h): a fixed-capacity unsigned integer stored as an  *)
(* array of bn_array_size words, least significant word first.             *)
(*                                                                         *)
(* Memory is a store: a function from object names to word arrays.  Every  *)
(* bignum_* operator below takes the store and the NAMES of the objects    *)
(* its pointer arguments refer to, and gives the store the C function      *)
(* leaves behind.  Passing the same name twice is passing the same pointer *)
(* twice, so aliasing of inputs and outputs behaves as in the C code.      *)
(* Loops are recursive operators that perform the loop's writes in the     *)
(* loop's order.                                                           *)
(*                                                                         *)
(* The arithmetic is modelled with words of bn_word_bits bits (the source  *)
(* has 8, 16 or 32; the code is the same for every width).  The hex codec  *)
(* is tied to two hex digits per byte and is modelled with the source's    *)
(* smallest configuration, bn_word_size = 1 (one byte per word).           *)
(***************************************************************************)
EXTENDS Integers, Sequences, FiniteSets

\* ------------------------------------------------------------ configuration
bn_word_bits == 2
bn_array_size == 3

BASE == 2 ^ bn_word_bits
bn_max_val == BASE - 1
Idx == 0 .. (bn_array_size - 1)
TotalBits == bn_word_bits * bn_array_size
Capacity == BASE ^ bn_array_size

Callers == {"a", "b", "c", "d"}
Locals == {"mul_row", "mul_tmp", "div_current", "div_denom", "div_tmp",
           "divmod_tmp", "mod_tmp",
           "isqrt_low", "isqrt_high", "isqrt_mid", "isqrt_tmp"}

ZeroArr == [i \in Idx |-> 0]
\* what an output object or a local holds before anything was stored in it
Poison == [i \in Idx |-> bn_max_val]

\* ------------------------------------------------------------ bit operations
RECURSIVE BitAnd(_, _)
BitAnd(x, y) ==
  IF x = 0 \/ y = 0 THEN 0
  ELSE (x % 2) * (y % 2) + 2 * BitAnd(x \div 2, y \div 2)

RECURSIVE BitOr(_, _)
BitOr(x, y) ==
  IF x = 0 THEN y
  ELSE IF y = 0 THEN x
  ELSE (IF x % 2 = 1 \/ y % 2 = 1 THEN 1 ELSE 0) + 2 * BitOr(x \div 2, y \div 2)

RECURSIVE BitXor(_, _)
BitXor(x, y) ==
  IF x = 0 THEN y
  ELSE IF y = 0 THEN x
  ELSE ((x + y) % 2) + 2 * BitXor(x \div 2, y \div 2)

\* TRUE of every store.  A loop asks it of the store it is handed, so that the
\* writes of one iteration are carried out before the next iteration starts
\* (TLC would otherwise postpone all of them to the end of the call).
Written(m) == DOMAIN m # {}

\* a value stored into a bn_word keeps its low bn_word_bits bits
ToWord(x) == x % BASE

\* ------------------------------------------------------------ init, assign
bignum_init(m, n) == [m EXCEPT ![n] = ZeroArr]

bignum_from_int(m, n, i) ==
  LET m1 == bignum_init(m, n)
      m2 == [m1 EXCEPT ![n][0] = ToWord(i)]
  IN  [m2 EXCEPT ![n][1] = ToWord(i \div BASE)]

bignum_assign(m, dst, src) == [m EXCEPT ![dst] = m[src]]

\* ------------------------------------------------------------ comparison
RECURSIVE cmp_loop(_, _, _, _)
cmp_loop(m, a, b, i) ==
  IF m[a][i] > m[b][i] THEN 1
  ELSE IF m[a][i] < m[b][i] THEN -1
  ELSE IF i # 0 THEN cmp_loop(m, a, b, i - 1)
  ELSE 0

bignum_cmp(m, a, b) == cmp_loop(m, a, b, bn_array_size - 1)

bignum_is_zero(m, n) == IF \E i \in Idx : m[n][i] # 0 THEN 0 ELSE 1

\* ------------------------------------------------------------ inc, dec
\* dec_loop with a guard that leaves zero alone instead of wrapping it
RECURSIVE dec_loop_keep_zero(_, _, _)
dec_loop_keep_zero(m, n, i) ==
  IF i = 0 /\ bignum_is_zero(m, n) = 1 THEN m
  ELSE IF Written(m) /\ i >= bn_array_size THEN m
  ELSE LET tmp == m[n][i]
           res == ToWord(tmp - 1)
           m1  == [m EXCEPT ![n][i] = res]
       IN  IF ~(res > tmp) THEN m1 ELSE dec_loop_keep_zero(m1, n, i + 1)

RECURSIVE dec_loop(_, _, _)
dec_loop(m, n, i) ==
  IF Written(m) /\ i >= bn_array_size THEN m
  ELSE LET tmp == m[n][i]
           res == ToWord(tmp - 1)
           m1  == [m EXCEPT ![n][i] = res]
       IN  IF ~(res > tmp) THEN m1 ELSE dec_loop(m1, n, i + 1)

bignum_dec(m, n) == dec_loop(m, n, 0)

RECURSIVE inc_loop(_, _, _)
inc_loop(m, n, i) ==
  IF Written(m) /\ i >= bn_array_size THEN m
  ELSE LET tmp == m[n][i]
           res == ToWord(tmp + 1)
           m1  == [m EXCEPT ![n][i] = res]
       IN  IF res > tmp THEN m1 ELSE inc_loop(m1, n, i + 1)

bignum_inc(m, n) == inc_loop(m, n, 0)

\* ------------------------------------------------------------ add, sub
RECURSIVE add_loop(_, _, _, _, _, _)
add_loop(m, a, b, c, i, carry) ==
  IF Written(m) /\ i >= bn_array_size THEN m
  ELSE LET tmp == m[a][i] + m[b][i] + carry
       IN  add_loop([m EXCEPT ![c][i] = BitAnd(tmp, bn_max_val)], a, b, c, i + 1,
                    IF tmp > bn_max_val THEN 1 ELSE 0)

bignum_add(m, a, b, c) == add_loop(m, a, b, c, 0, 0)

\* sub_loop with the borrow never taken from the next word
RECURSIVE sub_loop_no_borrow(_, _, _, _, _, _)
sub_loop_no_borrow(m, a, b, c, i, borrow) ==
  IF Written(m) /\ i >= bn_array_size THEN m
  ELSE LET tmp1 == m[a][i] + (bn_max_val + 1)
           tmp2 == m[b][i] + borrow
           res  == tmp1 - tmp2
       IN  sub_loop_no_borrow([m EXCEPT ![c][i] = BitAnd(res, bn_max_val)], a, b, c, i + 1, 0)

RECURSIVE sub_loop(_, _, _, _, _, _)
sub_loop(m, a, b, c, i, borrow) ==
  IF Written(m) /\ i >= bn_array_size THEN m
  ELSE LET tmp1 == m[a][i] + (bn_max_val + 1)
           tmp2 == m[b][i] + borrow
           res  == tmp1 - tmp2
       IN  sub_loop([m EXCEPT ![c][i] = BitAnd(res, bn_max_val)], a, b, c, i + 1,
                    IF res <= bn_max_val THEN 1 ELSE 0)

bignum_sub(m, a, b, c) == sub_loop(m, a, b, c, 0, 0)

\* ------------------------------------------------------------ and, or, xor
RECURSIVE and_loop(_, _, _, _, _)
and_loop(m, a, b, c, i) ==
  IF Written(m) /\ i >= bn_array_size THEN m
  ELSE and_loop([m EXCEPT ![c][i] = BitAnd(m[a][i], m[b][i])], a, b, c, i + 1)

bignum_and(m, a, b, c) == and_loop(m, a, b, c, 0)

RECURSIVE or_loop(_, _, _, _, _)
or_loop(m, a, b, c, i) ==
  IF Written(m) /\ i >= bn_array_size THEN m
  ELSE or_loop([m EXCEPT ![c][i] = BitOr(m[a][i], m[b][i])], a, b, c, i + 1)

bignum_or(m, a, b, c) == or_loop(m, a, b, c, 0)

RECURSIVE xor_loop(_, _, _, _, _)
xor_loop(m, a, b, c, i) ==
  IF Written(m) /\ i >= bn_array_size THEN m
  ELSE xor_loop([m EXCEPT ![c][i] = BitXor(m[a][i], m[b][i])], a, b, c, i + 1)

bignum_xor(m, a, b, c) == xor_loop(m, a, b, c, 0)

\* ------------------------------------------------------------ word and bit shifts
RECURSIVE rshift_word_copy(_, _, _, _)
rshift_word_copy(m, a, nwords, i) ==
  IF Written(m) /\ i >= bn_array_size - nwords THEN m
  ELSE rshift_word_copy([m EXCEPT ![a][i] = m[a][i + nwords]], a, nwords, i + 1)

bn__rshift_word(m, a, nwords) ==
  IF nwords >= bn_array_size THEN [m EXCEPT ![a] = ZeroArr]
  ELSE LET m1 == rshift_word_copy(m, a, nwords, 0)
       IN  [m1 EXCEPT ![a] = [i \in Idx |-> IF i >= bn_array_size - nwords
                                             THEN 0 ELSE m1[a][i]]]

RECURSIVE lshift_word_copy(_, _, _, _)
lshift_word_copy(m, a, nwords, i) ==
  IF Written(m) /\ i < nwords THEN m
  ELSE lshift_word_copy([m EXCEPT ![a][i] = m[a][i - nwords]], a, nwords, i - 1)

\* bn__lshift_word without the zero padding of the vacated low words
bn__lshift_word_no_pad(m, a, nwords) ==
  lshift_word_copy(m, a, nwords, bn_array_size - 1)

bn__lshift_word(m, a, nwords) ==
  LET m1 == lshift_word_copy(m, a, nwords, bn_array_size - 1)
  IN  [m1 EXCEPT ![a] = [i \in Idx |-> IF i < nwords THEN 0 ELSE m1[a][i]]]

\* for (i = size-1; i > 0; --i) a[i] = (a[i] << n) | (a[i-1] >> (bits - n));
\* a[0] <<= n;
RECURSIVE lshift_bits_loop(_, _, _, _)
lshift_bits_loop(m, a, n, i) ==
  IF Written(m) /\ i > 0
  THEN lshift_bits_loop(
         [m EXCEPT ![a][i] = ToWord(BitOr(m[a][i] * 2 ^ n,
                                          m[a][i - 1] \div 2 ^ (bn_word_bits - n)))],
         a, n, i - 1)
  ELSE [m EXCEPT ![a][i] = ToWord(m[a][i] * 2 ^ n)]

\* for (i = 0; i < size-1; ++i) a[i] = (a[i] >> n) | (a[i+1] << (bits - n));
\* a[i] >>= n;
RECURSIVE rshift_bits_loop(_, _, _, _)
rshift_bits_loop(m, a, n, i) ==
  IF Written(m) /\ i < bn_array_size - 1
  THEN rshift_bits_loop(
         [m EXCEPT ![a][i] = ToWord(BitOr(m[a][i] \div 2 ^ n,
                                          m[a][i + 1] * 2 ^ (bn_word_bits - n)))],
         a, n, i + 1)
  ELSE [m EXCEPT ![a][i] = m[a][i] \div 2 ^ n]

bn__lshift_one_bit(m, a) == lshift_bits_loop(m, a, 1, bn_array_size - 1)

bn__rshift_one_bit(m, a) == rshift_bits_loop(m, a, 1, 0)

bignum_lshift(m, a, b, nbits) ==
  LET m1     == bignum_assign(m, b, a)
      nwords == nbits \div bn_word_bits
      m2     == IF nwords # 0 THEN bn__lshift_word(m1, b, nwords) ELSE m1
      rest   == IF nwords # 0 THEN nbits - nwords * bn_word_bits ELSE nbits
  IN  IF rest # 0 THEN lshift_bits_loop(m2, b, rest, bn_array_size - 1) ELSE m2

bignum_rshift(m, a, b, nbits) ==
  LET m1     == bignum_assign(m, b, a)
      nwords == nbits \div bn_word_bits
      m2     == IF nwords # 0 THEN bn__rshift_word(m1, b, nwords) ELSE m1
      rest   == IF nwords # 0 THEN nbits - nwords * bn_word_bits ELSE nbits
  IN  IF rest # 0 THEN rshift_bits_loop(m2, b, rest, 0) ELSE m2

\* ------------------------------------------------------------ mul
\* inner loop over j of bignum_mul: row += (a[i] * b[j]) << (i + j) words
RECURSIVE mul_row_loop(_, _, _, _, _)
mul_row_loop(m, a, b, i, j) ==
  IF Written(m) /\ j >= bn_array_size THEN m
  ELSE IF i + j < bn_array_size
       THEN LET m1 == bignum_init(m, "mul_tmp")
                intermediate == m1[a][i] * m1[b][j]
                m2 == bignum_from_int(m1, "mul_tmp", intermediate)
                m3 == bn__lshift_word(m2, "mul_tmp", i + j)
                m4 == bignum_add(m3, "mul_tmp", "mul_row", "mul_row")
            IN  mul_row_loop(m4, a, b, i, j + 1)
       ELSE mul_row_loop(m, a, b, i, j + 1)

\* outer loop over i of bignum_mul
RECURSIVE mul_loop(_, _, _, _, _)
mul_loop(m, a, b, c, i) ==
  IF Written(m) /\ i >= bn_array_size THEN m
  ELSE LET m1 == bignum_init(m, "mul_row")
           m2 == mul_row_loop(m1, a, b, i, 0)
           m3 == bignum_add(m2, c, "mul_row", c)
       IN  mul_loop(m3, a, b, c, i + 1)

bignum_mul(m, a, b, c) == mul_loop(bignum_init(m, c), a, b, c, 0)

\* ------------------------------------------------------------ div
half_max == 1 + (bn_max_val \div 2)

\* while (bignum_cmp(&denom, a) != 1) { if (top word of denom >= half_max)
\* { overflow = true; break; } current <<= 1; denom <<= 1; }
\* The loop's state is the store.  An iteration that leaves the store as it
\* found it is repeated for ever: the loop does not end (hung).
RECURSIVE div_scale_loop(_, _)
div_scale_loop(m, a) ==
  IF bignum_cmp(m, "div_denom", a) # 1
  THEN IF m["div_denom"][bn_array_size - 1] >= half_max
       THEN [m |-> m, overflow |-> TRUE, hung |-> FALSE]
       ELSE LET m1 == bn__lshift_one_bit(m, "div_current")
                m2 == bn__lshift_one_bit(m1, "div_denom")
            IN  IF m2 = m
                THEN [m |-> m, overflow |-> FALSE, hung |-> TRUE]
                ELSE div_scale_loop(m2, a)
  ELSE [m |-> m, overflow |-> FALSE, hung |-> FALSE]

\* div_sub_loop with the test tmp >= denom written as tmp > denom
RECURSIVE div_sub_loop_strict(_, _)
div_sub_loop_strict(m, c) ==
  IF bignum_is_zero(m, "div_current") = 0
  THEN LET m1 == IF bignum_cmp(m, "div_tmp", "div_denom") = 1
                 THEN bignum_or(bignum_sub(m, "div_tmp", "div_denom", "div_tmp"),
                                c, "div_current", c)
                 ELSE m
           m2 == bn__rshift_one_bit(m1, "div_current")
           m3 == bn__rshift_one_bit(m2, "div_denom")
       IN  div_sub_loop_strict(m3, c)
  ELSE m

\* while (!bignum_is_zero(&current)) { if (tmp >= denom) { tmp -= denom;
\* c |= current; } current >>= 1; denom >>= 1; }
RECURSIVE div_sub_loop(_, _)
div_sub_loop(m, c) ==
  IF bignum_is_zero(m, "div_current") = 0
  THEN LET m1 == IF bignum_cmp(m, "div_tmp", "div_denom") # -1
                 THEN bignum_or(bignum_sub(m, "div_tmp", "div_denom", "div_tmp"),
                                c, "div_current", c)
                 ELSE m
           m2 == bn__rshift_one_bit(m1, "div_current")
           m3 == bn__rshift_one_bit(m2, "div_denom")
       IN  div_sub_loop(m3, c)
  ELSE m

\* result: the store, and whether the call never returns
bignum_div(m, a, b, c) ==
  LET m1 == bignum_from_int(m, "div_current", 1)
      m2 == bignum_assign(m1, "div_denom", b)
      m3 == bignum_assign(m2, "div_tmp", a)
      r  == div_scale_loop(m3, a)
  IN  IF r.hung THEN [m |-> r.m, hung |-> TRUE]
      ELSE LET m4 == IF ~r.overflow
                     THEN bn__rshift_one_bit(bn__rshift_one_bit(r.m, "div_denom"),
                                             "div_current")
                     ELSE r.m
               m5 == bignum_init(m4, c)
           IN  [m |-> div_sub_loop(m5, c), hung |-> FALSE]

\* ------------------------------------------------------------ divmod, mod
bignum_divmod(m, a, b, c, d) ==
  LET r == bignum_div(m, a, b, c)
  IN  IF r.hung THEN r
      ELSE LET m1 == bignum_mul(r.m, c, b, "divmod_tmp")
           IN  [m |-> bignum_sub(m1, a, "divmod_tmp", d), hung |-> FALSE]

bignum_mod(m, a, b, c) == bignum_divmod(m, a, b, "mod_tmp", c)

\* ------------------------------------------------------------ isqrt
RECURSIVE isqrt_loop(_, _)
isqrt_loop(m, a) ==
  IF bignum_cmp(m, "isqrt_high", "isqrt_low") > 0
  THEN LET m1 == bignum_mul(m, "isqrt_mid", "isqrt_mid", "isqrt_tmp")
           m2 == IF bignum_cmp(m1, "isqrt_tmp", a) > 0
                 THEN bignum_dec(bignum_assign(m1, "isqrt_high", "isqrt_mid"),
                                 "isqrt_high")
                 ELSE bignum_assign(m1, "isqrt_low", "isqrt_mid")
           m3 == bignum_sub(m2, "isqrt_high", "isqrt_low", "isqrt_mid")
           m4 == bn__rshift_one_bit(m3, "isqrt_mid")
           m5 == bignum_add(m4, "isqrt_low", "isqrt_mid", "isqrt_mid")
           m6 == bignum_inc(m5, "isqrt_mid")
       IN  isqrt_loop(m6, a)
  ELSE m

bignum_isqrt(m, a, b) ==
  LET m1 == bignum_init(m, "isqrt_low")
      m2 == bignum_assign(m1, "isqrt_high", a)
      m3 == bignum_rshift(m2, "isqrt_high", "isqrt_mid", 1)
      m4 == bignum_inc(m3, "isqrt_mid")
  IN  bignum_assign(isqrt_loop(m4, a), b, "isqrt_low")

\* ------------------------------------------------------------ calling a function
\* the store a call runs in: the caller's objects and the callee's locals
Enter(cm) == [o \in Callers \cup Locals |-> IF o \in Callers THEN cm[o] ELSE Poison]
\* what the caller can see once the call is over
Leave(m) == [o \in Callers |-> m[o]]

\* the number a word array stands for
RECURSIVE ValFrom(_, _)
ValFrom(arr, i) ==
  IF i >= bn_array_size THEN 0 ELSE arr[i] + BASE * ValFrom(arr, i + 1)

Val(arr) == ValFrom(arr, 0)

\* ------------------------------------------------------------ the program's state
VARIABLES
  mem0,    \* the caller's objects before the first call
  mem,     \* the caller's objects now
  calls,   \* the calls made so far, in order
  ret,     \* what the last call returned: <<>> for a void function, <<v>> for an int
  status,  \* "ready", or how the last call ended: "returned", "aborted", "hung", "overrun"
  str      \* the caller's character buffer (hex codec)

vars == <<mem0, mem, calls, ret, status, str>>

\* words the inputs are built from: every word when there are four of them,
\* the corner words of a wider word
Limbs == IF BASE <= 4 THEN 0 .. bn_max_val ELSE {0, 1, bn_max_val}
Inputs == [Idx -> Limbs]

Call(op, a, b, c, d, n) == [op |-> op, a |-> a, b |-> b, c |-> c, d |-> d, n |-> n]

Init ==
  /\ mem0 \in {[o \in Callers |-> IF o = "a" THEN x ELSE IF o = "b" THEN y ELSE Poison] :
                 x \in Inputs, y \in Inputs}
  /\ mem = mem0
  /\ calls = <<>>
  /\ ret = <<>>
  /\ status = "ready"
  /\ str = <<>>

\* a call of a function that returns: m is the store it leaves, r what it returns
Returns(call, m, r) ==
  /\ mem' = Leave(m)
  /\ calls' = Append(calls, call)
  /\ ret' = r
  /\ status' = "returned"
  /\ UNCHANGED <<mem0, str>>

\* a call of bignum_div, bignum_mod or bignum_divmod: all three are void
Divides(call, r) ==
  /\ mem' = Leave(r.m)
  /\ calls' = Append(calls, call)
  /\ ret' = <<>>
  /\ status' = IF r.hung THEN "hung" ELSE "returned"
  /\ UNCHANGED <<mem0, str>>

First == calls = <<>> /\ status = "ready"
\* the output pointer of a first call: a separate object, or one of the inputs
Outs == {"a", "b", "c"}

Add ==
  /\ First
  /\ \E c \in Outs :
       Returns(Call("add", "a", "b", c, "-", 0), bignum_add(Enter(mem), "a", "b", c), <<>>)

\* Sub with a bignum_sub that never takes the borrow from the next word
Sub_no_borrow ==
  \/ /\ First
     /\ \E c \in Outs :
          Returns(Call("sub", "a", "b", c, "-", 0),
                  sub_loop_no_borrow(Enter(mem), "a", "b", c, 0, 0), <<>>)
  \/ /\ calls = <<Call("add", "a", "b", "c", "-", 0)>>
     /\ Returns(Call("sub", "c", "b", "d", "-", 0),
                sub_loop_no_borrow(Enter(mem), "c", "b", "d", 0, 0), <<>>)

\* bignum_sub(a, b, out), or bignum_sub(c, b, d) on the sum a call of bignum_add left in c
Sub ==
  \/ /\ First
     /\ \E c \in Outs :
          Returns(Call("sub", "a", "b", c, "-", 0), bignum_sub(Enter(mem), "a", "b", c), <<>>)
  \/ /\ calls = <<Call("add", "a", "b", "c", "-", 0)>>
     /\ Returns(Call("sub", "c", "b", "d", "-", 0), bignum_sub(Enter(mem), "c", "b", "d"), <<>>)

Mul ==
  /\ First
  /\ \E c \in Outs :
       Returns(Call("mul", "a", "b", c, "-", 0), bignum_mul(Enter(mem), "a", "b", c), <<>>)

Div ==
  /\ First
  /\ \E c \in Outs :
       Divides(Call("div", "a", "b", c, "-", 0), bignum_div(Enter(mem), "a", "b", c))

Mod ==
  /\ First
  /\ \E c \in Outs :
       Divides(Call("mod", "a", "b", c, "-", 0), bignum_mod(Enter(mem), "a", "b", c))

\* the pairs of output pointers (quotient, remainder) of bignum_divmod
DivmodOuts == {<<"c", "d">>, <<"a", "d">>, <<"b", "d">>, <<"c", "a">>, <<"c", "b">>}

Divmod ==
  /\ First
  /\ \E o \in DivmodOuts :
       Divides(Call("divmod", "a", "b", o[1], o[2], 0),
               bignum_divmod(Enter(mem), "a", "b", o[1], o[2]))

And ==
  /\ First
  /\ \E c \in Outs :
       Returns(Call("and", "a", "b", c, "-", 0), bignum_and(Enter(mem), "a", "b", c), <<>>)

Or ==
  /\ First
  /\ \E c \in Outs :
       Returns(Call("or", "a", "b", c, "-", 0), bignum_or(Enter(mem), "a", "b", c), <<>>)

Xor ==
  /\ First
  /\ \E c \in Outs :
       Returns(Call("xor", "a", "b", c, "-", 0), bignum_xor(Enter(mem), "a", "b", c), <<>>)

\* shift amounts: up to one more than the whole width
Shifts == 0 .. (TotalBits + 1)

Lshift ==
  /\ First
  /\ \E c \in {"a", "c"}, n \in Shifts :
       Returns(Call("lshift", "a", "-", c, "-", n), bignum_lshift(Enter(mem), "a", c, n), <<>>)

Rshift ==
  /\ First
  /\ \E c \in {"a", "c"}, n \in Shifts :
       Returns(Call("rshift", "a", "-", c, "-", n), bignum_rshift(Enter(mem), "a", c, n), <<>>)

Inc ==
  /\ First
  /\ Returns(Call("inc", "a", "-", "a", "-", 0), bignum_inc(Enter(mem), "a"), <<>>)

\* bignum_dec(a), also on the value a call of bignum_inc left in a
Dec ==
  /\ \/ First
     \/ calls = <<Call("inc", "a", "-", "a", "-", 0)>>
  /\ Returns(Call("dec", "a", "-", "a", "-", 0), bignum_dec(Enter(mem), "a"), <<>>)

Isqrt ==
  /\ First
  /\ Returns(Call("isqrt", "a", "-", "c", "-", 0), bignum_isqrt(Enter(mem), "a", "c"), <<>>)

Cmp ==
  /\ First
  /\ Returns(Call("cmp", "a", "b", "-", "-", 0), Enter(mem), <<bignum_cmp(Enter(mem), "a", "b")>>)

IsZero ==
  /\ First
  /\ Returns(Call("is_zero", "a", "-", "-", "-", 0), Enter(mem), <<bignum_is_zero(Enter(mem), "a")>>)

Next ==
  \/ Add \/ Sub \/ Mul \/ Div \/ Mod \/ Divmod
  \/ And \/ Or \/ Xor \/ Lshift \/ Rshift
  \/ Inc \/ Dec \/ Isqrt \/ Cmp \/ IsZero

Spec == Init /\ [][Next]_vars

\* ------------------------------------------------------------ hex codec
\* The codec is modelled as compiled with bn_word_size 1: a word is one byte,
\* written and read as two hex characters.  Characters are their ASCII codes;
\* the C index k of a buffer is position k + 1 of the sequence.
bn_word_size == 1
WordMod == 2 ^ (8 * bn_word_size)

hexchar__to_int(a) == IF 97 <= a /\ a <= 102 THEN a - 97 + 10 ELSE a - 48

bn__hexlo(b) ==
  LET q == b % 16
  IN  IF q >= 10 THEN q + 97 ELSE q + 48

bn__hexhi(b) ==
  LET q == b \div 16
  IN  IF q >= 10 THEN q + 97 ELSE q + 48

\* for (q = 0; q != 2 * bn_word_size; ++q) tmp = 16 * tmp + digit;  (tmp is a bn_word)
RECURSIVE from_string_word(_, _, _, _)
from_string_word(s, i, q, tmp) ==
  IF q # 2 * bn_word_size
  THEN from_string_word(s, i, q + 1, (16 * tmp + hexchar__to_int(s[i + q + 1])) % WordMod)
  ELSE tmp

\* while (i >= 0) { n->array[j] = word at str[i ..]; i -= 2 * bn_word_size; j += 1; }
\* A store at an index inside the array goes to the array; a store at
\* array[j] with j >= bn_array_size lands outside it and is collected in spill.
RECURSIVE from_string_loop(_, _, _, _, _, _)
from_string_loop(m, n, s, i, j, spill) ==
  IF Written(m) /\ i >= 0
  THEN LET tmp == from_string_word(s, i, 0, 0)
       IN  IF j < bn_array_size
           THEN from_string_loop([m EXCEPT ![n][j] = tmp], n, s,
                                 i - 2 * bn_word_size, j + 1, spill)
           ELSE from_string_loop(m, n, s, i - 2 * bn_word_size, j + 1,
                                 Append(spill, tmp))
  ELSE [m |-> m, spill |-> spill, aborted |-> FALSE]

bignum_from_string(m, n, s, nbytes) ==
  IF ~(nbytes > 0) \/ nbytes % 2 # 0 \/ nbytes % (bn_word_size * 2) # 0
  THEN [m |-> m, spill |-> <<>>, aborted |-> TRUE]
  ELSE from_string_loop(bignum_init(m, n), n, s, nbytes - 2 * bn_word_size, 0, <<>>)

\* while ((j >= 0) && (nbytes > (i + 1))) { str[i] = hexhi; str[i+1] = hexlo; ... }
RECURSIVE to_string_write(_, _, _, _, _)
to_string_write(arr, s, nbytes, j, i) ==
  IF j >= 0 /\ nbytes > i + 1
  THEN to_string_write(arr,
                       [s EXCEPT ![i + 1] = bn__hexhi(arr[j]), ![i + 2] = bn__hexlo(arr[j])],
                       nbytes, j - 1, i + 2 * bn_word_size)
  ELSE s

\* j = 0; while (str[j] == '0') j += 1;   -1: the scan ran off the end of the buffer
RECURSIVE to_string_zeros(_, _)
to_string_zeros(s, j) ==
  IF j >= Len(s) THEN -1
  ELSE IF s[j + 1] = 48 THEN to_string_zeros(s, j + 1)
  ELSE j

\* for (i = 0; i < (nbytes - j); ++i) str[i] = str[i + j];  then str[i] = 0
RECURSIVE to_string_move(_, _, _, _)
to_string_move(s, nbytes, j, i) ==
  IF i < nbytes - j
  THEN to_string_move([s EXCEPT ![i + 1] = s[i + j + 1]], nbytes, j, i + 1)
  ELSE [s EXCEPT ![i + 1] = 0]

\* result: the buffer, and how the call ended
bignum_to_string(m, n, s, nbytes) ==
  IF ~(nbytes > 0) \/ nbytes % 2 # 0
  THEN [s |-> s, end |-> "aborted"]
  ELSE LET s1 == to_string_write(m[n], s, nbytes, bn_array_size - 1, 0)
           j  == to_string_zeros(s1, 0)
       IN  IF j = -1 THEN [s |-> s1, end |-> "overrun"]
           ELSE [s |-> to_string_move(s1, nbytes, j, 0), end |-> "returned"]

\* strlen: the number of characters before the first 0
RECURSIVE strlen_from(_, _)
strlen_from(s, k) ==
  IF k >= Len(s) \/ s[k + 1] = 0 THEN k ELSE strlen_from(s, k + 1)

strlen(s) == strlen_from(s, 0)

\* ------------------------------------------------------------ the codec's callers
\* bytes the codec's inputs are built from: 00 01 0a 10 9a ff
ByteLimbs == {0, 1, 10, 16, 154, 255}
ByteInputs == [Idx -> ByteLimbs]

\* two-character groups the caller's texts are built from: "00" "1f" "a9"
HexWords == {<<48, 48>>, <<49, 102>>, <<97, 57>>}

RECURSIVE TextsOf(_)
TextsOf(k) ==
  IF k = 0 THEN {<<>>}
  ELSE {w \o t : w \in HexWords, t \in TextsOf(k - 1)}

\* what the caller's buffer holds at the start: a 0-terminated text of up to
\* bn_array_size + 1 words, or nothing but '0' characters
Buffers ==
  {t \o <<0>> : t \in UNION {TextsOf(k) : k \in 1 .. (bn_array_size + 1)}}
    \cup {[k \in 1 .. (2 * bn_word_size * bn_array_size + 1) |-> 48]}

CodecInit ==
  /\ mem0 \in {[o \in Callers |-> IF o = "a" THEN x ELSE Poison] : x \in ByteInputs}
  /\ mem = mem0
  /\ calls = <<>>
  /\ ret = <<>>
  /\ status = "ready"
  /\ str \in Buffers

\* bignum_to_string(a, str, nbytes) into a buffer of more than nbytes characters
ToStr ==
  /\ First
  /\ \E nbytes \in {2 * bn_word_size * bn_array_size - 1, 2 * bn_word_size * bn_array_size} :
       /\ Len(str) > nbytes
       /\ LET r == bignum_to_string(mem, "a", str, nbytes)
          IN  /\ str' = r.s
              /\ status' = r.end
              /\ calls' = Append(calls, Call("to_string", "a", "-", "-", "-", nbytes))
              /\ ret' = <<>>
              /\ UNCHANGED <<mem0, mem>>

\* where a word stored past the end of c's array can land: in no object of the
\* caller, or in word 0 of one of the caller's other objects
Victims == {"-", "a", "b", "d"}

\* bignum_from_string(c, str, nbytes) of the text in the buffer: the caller's
\* own text (nbytes its length, or one less), or the text bignum_to_string left
FromStr ==
  /\ \/ First
     \/ /\ Len(calls) = 1 /\ calls[1].op = "to_string" /\ status = "returned"
  /\ strlen(str) < Len(str)
  /\ \E nbytes \in {strlen(str) - 1, strlen(str)} :
       /\ calls # <<>> => nbytes = strlen(str)
       /\ LET r == bignum_from_string(mem, "c", str, nbytes)
          IN  /\ calls' = Append(calls, Call("from_string", "-", "-", "c", "-", nbytes))
              /\ ret' = <<>>
              /\ status' = IF r.aborted THEN "aborted"
                           ELSE IF r.spill # <<>> THEN "overrun"
                           ELSE "returned"
              /\ \E v \in Victims :
                   mem' = IF r.spill # <<>> /\ v # "-"
                          THEN [r.m EXCEPT ![v][0] = r.spill[1]]
                          ELSE r.m
              /\ UNCHANGED <<mem0, str>>

CodecNext == ToStr \/ FromStr

CodecSpec == CodecInit /\ [][CodecNext]_vars

\* ------------------------------------------------------------ properties
A0 == Val(mem0["a"])
B0 == Val(mem0["b"])
\* the only call made so far is k
Only(k) == calls = <<k>>
\* the call reported something other than "no overflow" to its caller
Signalled == ret # <<>> /\ ret[1] # 0

\* C1: for every dividend a and every non-zero divisor b, bignum_divmod(a, b, c, d)
\* with outputs distinct from the inputs returns with c * b + d = a in exact
\* integer arithmetic and d < b; when a < b it stores c = 0 and d = a.
C1_DivmodCorrect ==
  (Only(Call("divmod", "a", "b", "c", "d", 0)) /\ B0 # 0)
    => /\ status = "returned"
       /\ Val(mem["c"]) * B0 + Val(mem["d"]) = A0
       /\ Val(mem["d"]) < B0
       /\ A0 < B0 => (mem["c"] = ZeroArr /\ mem["d"] = mem0["a"])

\* a division by a divisor of more than one word with quotient >= 2 and a remainder
C1_Witness ==
  /\ Only(Call("divmod", "a", "b", "c", "d", 0))
  /\ status = "returned"
  /\ B0 >= BASE
  /\ Val(mem["c"]) >= 2
  /\ Val(mem["d"]) >= 1

\* C2: div, mod and divmod called with a divisor equal to zero abort at the call
\* (assertion failure): they neither return nor keep running.
C2_DivByZeroAborts ==
  (Len(calls) = 1 /\ calls[1].op \in {"div", "mod", "divmod"} /\ B0 = 0)
    => status = "aborted"

\* the store the call k leaves when it is made on the first store with the
\* separate output objects c (and d)
Separate(k) ==
  CASE k.op = "add"    -> bignum_add(Enter(mem0), "a", "b", "c")
    [] k.op = "sub"    -> bignum_sub(Enter(mem0), "a", "b", "c")
    [] k.op = "mul"    -> bignum_mul(Enter(mem0), "a", "b", "c")
    [] k.op = "div"    -> bignum_div(Enter(mem0), "a", "b", "c").m
    [] k.op = "mod"    -> bignum_mod(Enter(mem0), "a", "b", "c").m
    [] k.op = "divmod" -> bignum_divmod(Enter(mem0), "a", "b", "c", "d").m
    [] k.op = "and"    -> bignum_and(Enter(mem0), "a", "b", "c")
    [] k.op = "or"     -> bignum_or(Enter(mem0), "a", "b", "c")
    [] k.op = "xor"    -> bignum_xor(Enter(mem0), "a", "b", "c")
    [] k.op = "lshift" -> bignum_lshift(Enter(mem0), "a", "c", k.n)
    [] k.op = "rshift" -> bignum_rshift(Enter(mem0), "a", "c", k.n)

AliasOps == {"add", "sub", "mul", "div", "mod", "divmod", "and", "or", "xor",
             "lshift", "rshift"}

\* C3: each of add, sub, mul, div, mod, divmod, and, or, xor, lshift, rshift,
\* called with an output that is one of its inputs, stores what it stores when
\* called with a separate output.
C3_InPlaceSameAsSeparate ==
  (/\ Len(calls) = 1
   /\ calls[1].op \in AliasOps
   /\ status = "returned"
   /\ (calls[1].c \in {"a", "b"} \/ calls[1].d \in {"a", "b"}))
    => /\ mem[calls[1].c] = Separate(calls[1])["c"]
       /\ calls[1].op = "divmod" => mem[calls[1].d] = Separate(calls[1])["d"]

\* the exact result of the arithmetic call k on the first store
Exact(k) ==
  CASE k.op = "add" -> A0 + B0
    [] k.op = "sub" -> A0 - B0
    [] k.op = "mul" -> A0 * B0
    [] k.op = "inc" -> A0 + 1
    [] k.op = "dec" -> A0 - 1

\* C4: every call of add, sub, mul, incr and decr reports an overflow indicator
\* to its caller that is true exactly when the exact result lies outside
\* 0 .. BASE^capacity - 1.
C4_OverflowReported ==
  (/\ Len(calls) = 1
   /\ calls[1].op \in {"add", "sub", "mul", "inc", "dec"}
   /\ calls[1].c \in {"a", "c"} /\ (calls[1].c = "a" => calls[1].op \in {"inc", "dec"}))
    => (Signalled <=> Exact(calls[1]) \notin 0 .. (Capacity - 1))

\* C5: bignum_mul(a, b, c) with c distinct from a and b stores (a * b) mod
\* BASE^capacity in c.
C5_MulTruncatedProduct ==
  Only(Call("mul", "a", "b", "c", "-", 0))
    => Val(mem["c"]) = (A0 * B0) % Capacity

\* a product of two operands of more than one word whose high part is dropped
C5_Witness ==
  /\ Only(Call("mul", "a", "b", "c", "-", 0))
  /\ A0 >= BASE /\ B0 >= BASE
  /\ A0 * B0 >= Capacity
  /\ Val(mem["c"]) # 0

\* C6: for every a and b whose sum fits in the capacity, bignum_sub(c, b, d)
\* after bignum_add(a, b, c) leaves in d exactly a, word for word.
C6_SubUndoesAdd ==
  (/\ calls = <<Call("add", "a", "b", "c", "-", 0), Call("sub", "c", "b", "d", "-", 0)>>
   /\ A0 + B0 < Capacity)
    => mem["d"] = mem0["a"]

\* add then sub where the add carried out of word 0 and the sub borrows it back
C6_Witness ==
  /\ calls = <<Call("add", "a", "b", "c", "-", 0), Call("sub", "c", "b", "d", "-", 0)>>
  /\ A0 + B0 < Capacity
  /\ mem0["a"][0] + mem0["b"][0] >= BASE
  /\ mem["d"] = mem0["a"]

\* C7: increment stores (n + 1) mod BASE^capacity and decrement stores (n - 1) mod
\* BASE^capacity; increment followed by decrement gives the original value when
\* the increment did not overflow; decrementing zero leaves every word at its
\* maximum.
C7_IncDec ==
  /\ Only(Call("inc", "a", "-", "a", "-", 0)) => Val(mem["a"]) = (A0 + 1) % Capacity
  /\ Only(Call("dec", "a", "-", "a", "-", 0)) => Val(mem["a"]) = (A0 - 1) % Capacity
  /\ (calls = <<Call("inc", "a", "-", "a", "-", 0), Call("dec", "a", "-", "a", "-", 0)>>
      /\ A0 + 1 < Capacity) => mem["a"] = mem0["a"]
  /\ (Only(Call("dec", "a", "-", "a", "-", 0)) /\ A0 = 0)
       => \A i \in Idx : mem["a"][i] = bn_max_val

\* increment that carried out of word 0, then decrement that borrowed it back
C7_Witness ==
  /\ calls = <<Call("inc", "a", "-", "a", "-", 0), Call("dec", "a", "-", "a", "-", 0)>>
  /\ mem0["a"][0] = bn_max_val
  /\ A0 + 1 < Capacity
  /\ mem["a"] = mem0["a"]

\* C8: for every value, the text bignum_to_string renders into a sufficiently
\* large buffer, decoded with bignum_from_string, gives a word array identical
\* to the original.
C8_HexRoundTrip ==
  (/\ Len(calls) = 2
   /\ calls[1] = Call("to_string", "a", "-", "-", "-", 2 * bn_word_size * bn_array_size)
   /\ calls[2].op = "from_string")
    => (status = "returned" /\ mem["c"] = mem0["a"])

\* the value of the hex digit c
HexDigit(c) == IF c >= 97 THEN c - 97 + 10 ELSE c - 48
\* word j (0 the least significant) of the hex text of nbytes characters in s
TextWord(s, nbytes, j) ==
  16 * HexDigit(s[nbytes - 2 * j - 1]) + HexDigit(s[nbytes - 2 * j])

\* C9: decoding a hex string with more digits than the capacity holds sets
\* Overflow and stores the least significant digits only: bignum_from_string
\* writes no word at an index >= capacity and leaves in the array the low
\* capacity-many words of the text.
C9_OverlongDecodeTruncates ==
  (/\ Len(calls) = 1
   /\ calls[1].op = "from_string"
   /\ calls[1].n > 2 * bn_word_size * bn_array_size
   /\ calls[1].n % (2 * bn_word_size) = 0)
    => /\ status = "returned"
       /\ Signalled
       /\ \A j \in Idx : mem["c"][j] = TextWord(str, calls[1].n, j)
       /\ \A o \in Callers \ {"c"} : mem[o] = mem0[o]

\* C10: for every a, bignum_isqrt(a, b) stores in b the integer square root of a:
\* b * b <= a < (b + 1) * (b + 1) in exact integer arithmetic.
C10_IsqrtCorrect ==
  Only(Call("isqrt", "a", "-", "c", "-", 0))
    => /\ status = "returned"
       /\ Val(mem["c"]) * Val(mem["c"]) <= A0
       /\ A0 < (Val(mem["c"]) + 1) * (Val(mem["c"]) + 1)

====
